---- MODULE Spec2Model ----
(***************************************************************************)
(* The Membership_ zkApp of the voting example                             *)
(* (src/src/examples/zkapps/voting/membership.ts): a contract that         *)
(* dispatches Member actions (addEntry), commits them to a Merkle root     *)
(* (publish) and answers membership queries against that root (isMember). *)
(*                                                                         *)
(* Field values are modelled as flat tuples of naturals: the preimage of   *)
(* the hash that produced them (Poseidon idealised as collision free).     *)
(* The actions hash of the reducer is modelled the same way, as the        *)
(* sequence of the actions hashed into it.                                 *)
(***************************************************************************)
EXTENDS Naturals, Sequences, FiniteSets

\* Longest action log explored: addEntry stops dispatching beyond it.
MaxLog == 3

\* Most lines in the stack trace of a thrown error.
MaxStack == 2

----------------------------------------------------------------------------
(* Value types the contract consumes: Field, PublicKey, MerkleWitness,     *)
(* Member, ParticipantPreconditions.                                       *)

\* Field(0)
ZeroField == <<0>>

\* PublicKey.empty(), the identity of the empty sentinel member
EmptyPublicKey == 0

\* Poseidon.hash(fields)
PoseidonHash(fields) == <<1>> \o fields

\* hash of an inner Merkle node
hashNode(left, right) == <<2>> \o left \o right

\* witness.calculateRoot(leaf): one-level sibling path
calculateRoot(witness, leaf) ==
  IF witness.isLeft THEN hashNode(leaf, witness.sibling)
                    ELSE hashNode(witness.sibling, leaf)

\* member.toFields()
toFields(member) ==
  <<member.publicKey, member.balance, IF member.witness.isLeft THEN 1 ELSE 0>>
    \o member.witness.sibling

\* Member.empty()
EmptyMember ==
  [publicKey |-> EmptyPublicKey, balance |-> 0,
   witness |-> [isLeft |-> FALSE, sibling |-> ZeroField]]

\* _action.equals(member)
memberEquals(a, b) ==
  /\ a.publicKey = b.publicKey
  /\ a.balance = b.balance
  /\ a.witness = b.witness

\* Circuit.if(condition, x, y): both arms are values already computed
CircuitIf(condition, x, y) == IF condition THEN x ELSE y

\* ParticipantPreconditions.default
DefaultPreconditions == [minMina |-> 0, maxMina |-> 10]

\* the preconditions a caller of Membership(params) may pass
PreconditionChoices == {DefaultPreconditions, [minMina |-> 5, maxMina |-> 6]}

\* the members a caller may pass to addEntry and isMember
mkMember(pk, bal, left) ==
  [publicKey |-> pk, balance |-> bal,
   witness |-> [isLeft |-> left, sibling |-> ZeroField]]

Candidates ==
  {mkMember(1, 5, TRUE), mkMember(1, 4, TRUE),
   mkMember(2, 6, FALSE), mkMember(2, 7, FALSE)}

\* root of the tree that holds only `member`, at the place its witness names
memberRoot(member) ==
  calculateRoot(member.witness, PoseidonHash(toFields(member)))

\* root of the empty tree
EmptyTreeRoot == hashNode(ZeroField, ZeroField)

\* values the deployer may store in committedMembers before the first call
DeployRoots == {EmptyTreeRoot} \cup {memberRoot(m) : m \in Candidates}

\* the values of the Member action type that reach a reducer callback
ActionValues == Candidates \cup {EmptyMember}

----------------------------------------------------------------------------
(* Experimental.Reducer                                                    *)

\* Reducer.initialActionsHash
initialActionsHash == <<>>

\* the actions hash after one more action
updateActionsHash(actionsHash, action) == Append(actionsHash, action)

\* variant: the actions hash restarts from the initial one at every run
reduceFromInitialHash(actionsList, step, initial) ==
  LET run[i \in 0..Len(actionsList)] ==
        IF i = 0
        THEN [state |-> initial.state, actionsHash |-> initialActionsHash]
        ELSE [state |-> step[run[i - 1].state, actionsList[i]],
              actionsHash |->
                updateActionsHash(run[i - 1].actionsHash, actionsList[i])]
  IN  run[Len(actionsList)]

\* reducer.reduce(actionsList, stateType, step, initial); the callback
\* `step` is passed as a function of (state, action)
reduce(actionsList, step, initial) ==
  LET run[i \in 0..Len(actionsList)] ==
        IF i = 0 THEN initial
        ELSE [state |-> step[run[i - 1].state, actionsList[i]],
              actionsHash |->
                updateActionsHash(run[i - 1].actionsHash, actionsList[i])]
  IN  run[Len(actionsList)]

----------------------------------------------------------------------------
(* CatchAndPrettifyStacktrace (src/unnamed/part_000)                       *)
(*                                                                         *)
(* A stack trace is a sequence of lines, <<>> for a missing or empty one.  *)
(* A line is a text followed, when `path` is not <<>>, by a parenthesised  *)
(* path of segments; `abs` tells whether the path starts with a slash.     *)

stackLine(text, abs, path) == [text |-> text, abs |-> abs, path |-> path]

\* the lines an error stack may hold
LineChoices ==
  {stackLine("Error: failed", FALSE, <<>>),
   stackLine("at method", TRUE, <<"home", "snarkyjs", "src", "a.ts">>),
   stackLine("at CatchAndPrettifyStacktrace", TRUE, <<"home", "a.ts">>),
   stackLine("at caml", TRUE, <<"home", "opam", "lib", "ocaml.ml">>),
   stackLine("at run", TRUE, <<"workspace_root", "src", "a.ts">>),
   stackLine("at step", TRUE, <<"home", "builtin", "a.ts">>),
   stackLine("at bc", TRUE, <<"home", "snarky_js_node.bc.cjs">>)}

StackChoices == UNION {[1..n -> LineChoices] : n \in 0..MaxStack}

\* number of characters of a path segment
segmentLength(segment) ==
  CASE segment = "home" -> 4
    [] segment = "snarkyjs" -> 8
    [] segment = "src" -> 3
    [] segment = "a.ts" -> 4
    [] segment = "opam" -> 4
    [] segment = "lib" -> 3
    [] segment = "ocaml.ml" -> 8
    [] segment = "workspace_root" -> 14
    [] segment = "builtin" -> 7
    [] segment = "snarky_js_node.bc.cjs" -> 21
    [] segment = "ocaml" -> 5

\* lineRemovalKeywords
lineRemovalKeywords ==
  {"snarky_js_node.bc.cjs", "/builtin/", "CatchAndPrettifyStacktrace"}

\* stacktraceLine.includes(keyword)
lineIncludes(line, keyword) ==
  IF keyword = "/builtin/"
  THEN \E i \in 1..Len(line.path) :
         /\ line.path[i] = "builtin"
         /\ i < Len(line.path)
         /\ (i > 1 \/ line.abs)
  ELSE \/ line.text = "at " \o keyword
       \/ \E i \in 1..Len(line.path) : line.path[i] = keyword

\* first segment of the path that is `word`, 0 when there is none
segmentIndexOf(path, word) ==
  IF \E i \in 1..Len(path) : path[i] = word
  THEN CHOOSE i \in 1..Len(path) :
         /\ path[i] = word
         /\ \A j \in 1..(i - 1) : path[j] # word
  ELSE 0

\* last segment of the path that is `word`, 0 when there is none
segmentLastIndexOf(path, word) ==
  IF \E i \in 1..Len(path) : path[i] = word
  THEN CHOOSE i \in 1..Len(path) :
         /\ path[i] = word
         /\ \A j \in (i + 1)..Len(path) : path[j] # word
  ELSE 0

\* fullPath.indexOf(word) for a word that is the i-th segment: the number
\* of characters before it
RECURSIVE charsBefore(_, _)
charsBefore(path, i) ==
  IF i <= 1 THEN 0
  ELSE charsBefore(path, i - 1) + segmentLength(path[i - 1]) + 1

charIndexOf(line, i) == charsBefore(line.path, i) + (IF line.abs THEN 1 ELSE 0)

\* getDirectoryPath(stacktraceLine) finds a path
hasDirectoryPath(line) == line.path # <<>>

\* trimSnarkyJSPath(stacktraceLine)
trimSnarkyJSPath(line) ==
  LET snarkyJSIndex == segmentIndexOf(line.path, "snarkyjs")
  IN  IF ~hasDirectoryPath(line) THEN line
      ELSE IF snarkyJSIndex = 0 THEN line
      ELSE stackLine(line.text, FALSE,
                     SubSeq(line.path, snarkyJSIndex, Len(line.path)))

\* trimOpamPath(stacktraceLine)
trimOpamPath(line) ==
  LET opamIndex == segmentIndexOf(line.path, "opam")
      updatedPathArray == SubSeq(line.path, opamIndex, Len(line.path))
      libIndex == segmentLastIndexOf(updatedPathArray, "lib")
  IN  IF ~hasDirectoryPath(line) THEN line
      ELSE IF opamIndex = 0 THEN line
      ELSE IF libIndex = 0 THEN line
      ELSE stackLine(line.text, FALSE,
                     <<"ocaml">> \o SubSeq(updatedPathArray, libIndex + 1,
                                           Len(updatedPathArray)))

\* trimWorkspacePath(stacktraceLine): the array of segments is sliced at
\* workspaceIndex, which is the character index found in the path
trimWorkspacePath(line) ==
  LET segment == segmentIndexOf(line.path, "workspace_root")
      workspaceIndex == charIndexOf(line, segment)
      updatedPathArray == SubSeq(line.path, segment, Len(line.path))
  IN  IF ~hasDirectoryPath(line) THEN line
      ELSE IF segment = 0 THEN line
      ELSE stackLine(line.text, FALSE,
                     SubSeq(updatedPathArray, workspaceIndex + 1,
                            Len(updatedPathArray)))

\* trimPaths(stacktracePath)
trimPaths(line) ==
  IF lineIncludes(line, "snarkyjs") THEN trimSnarkyJSPath(line)
  ELSE IF lineIncludes(line, "opam") THEN trimOpamPath(line)
  ELSE IF lineIncludes(line, "workspace_root") THEN trimWorkspacePath(line)
  ELSE line

\* the lines kept by the loop of prettifyStacktrace, each trimmed
RECURSIVE newStacktrace(_)
newStacktrace(stacktraceLines) ==
  IF stacktraceLines = <<>> THEN <<>>
  ELSE LET line == Head(stacktraceLines)
           shouldRemoveLine ==
             \E lineToRemove \in lineRemovalKeywords :
               lineIncludes(line, lineToRemove)
       IN  (IF shouldRemoveLine THEN <<>> ELSE <<trimPaths(line)>>)
             \o newStacktrace(Tail(stacktraceLines))

\* a thrown value: an Error object or not, with its message and stack
thrownValue(isError, message, stack) ==
  [isError |-> isError, message |-> message, stack |-> stack]

\* prettifyStacktrace(error): undefined, or the new stack trace
prettifyStacktrace(error) ==
  IF ~error.isError \/ error.stack = <<>>
  THEN [defined |-> FALSE, stack |-> <<>>]
  ELSE [defined |-> TRUE, stack |-> newStacktrace(error.stack)]

\* the body shared by the catch block and the promise catch handler:
\* the error object after `error.stack = prettyStacktrace`, when that runs
withPrettyStack(error) ==
  LET prettyStacktrace == prettifyStacktrace(error)
  IN  IF prettyStacktrace.defined /\ prettyStacktrace.stack # <<>>
         /\ error.isError
      THEN [error EXCEPT !.stack = prettyStacktrace.stack]
      ELSE error

\* How a call ends: "return" with a value, "throw" of the object `ref`,
\* or the return of a promise that will "resolve" with a value or "reject"
\* with the object `ref`.
outcome(kind, value, ref) == [kind |-> kind, value |-> value, ref |-> ref]

\* no object
NoRef == 0

\* the object the original method throws or rejects with
ErrorRef == 1

\* the values the original method may return or resolve with
ReturnValues == {0, 1}

\* the values the original method may throw or reject with
ThrownValues ==
  {thrownValue(TRUE, "failed", stack) : stack \in StackChoices}
    \cup {thrownValue(FALSE, "failed", <<>>),
          thrownValue(FALSE, "failed",
                      <<stackLine("at method", TRUE,
                                  <<"home", "snarkyjs", "src", "a.ts">>)>>)}

\* the ways the original method may end
OriginalOutcomes ==
  {outcome(kind, value, NoRef) :
     kind \in {"return", "resolve"}, value \in ReturnValues}
    \cup {outcome(kind, 0, ErrorRef) : kind \in {"throw", "reject"}}

\* variant: the promise catch handler prettifies and does not rethrow
handleResultSwallows(result, error) ==
  IF result.kind \in {"resolve", "reject"}
  THEN IF result.kind = "reject"
       THEN [result |-> outcome("resolve", 0, NoRef),
             error |-> withPrettyStack(error)]
       ELSE [result |-> result, error |-> error]
  ELSE [result |-> result, error |-> error]

\* handleResult(result) of lines 96-107, for a result that is a promise
\* settling as `result.kind` says, or a plain value
handleResult(result, error) ==
  IF result.kind \in {"resolve", "reject"}
  THEN IF result.kind = "reject"
       THEN [result |-> outcome("reject", result.value, result.ref),
             error |-> withPrettyStack(error)]
       ELSE [result |-> result, error |-> error]
  ELSE [result |-> result, error |-> error]

\* descriptor.value of lines 95-119, given how originalMethod ends and
\* the object it throws: how the wrapper ends, and the object afterwards
CatchAndPrettifyStacktrace(original, error) ==
  IF original.kind = "throw"
  THEN [result |-> outcome("throw", original.value, original.ref),
        error |-> withPrettyStack(error)]
  ELSE handleResult(original, error)

\* a call of the wrapper: how the original ended, with the object thrown
\* as it was, and how the wrapper ended, with the object as it is
wrapperCall(called, original, errorBefore, result, errorAfter) ==
  [called |-> called, original |-> original, errorBefore |-> errorBefore,
   result |-> result, errorAfter |-> errorAfter]

NoThrownValue == thrownValue(FALSE, "", <<>>)

NotCalled ==
  wrapperCall(FALSE, outcome("return", 0, NoRef), NoThrownValue,
              outcome("return", 0, NoRef), NoThrownValue)

----------------------------------------------------------------------------
VARIABLES
  participantPreconditions, \* module-level `let participantPreconditions`
  committedMembers,         \* @state committedMembers
  accumulatedMembers,       \* @state accumulatedMembers
  log,                      \* actions dispatched through this.reducer
  admitted,                 \* history: the member argument of each dispatch
  deployedRoot,             \* history: committedMembers at deployment
  publishedAt,              \* history: Len(log) at the latest publish call
  last,                     \* history: latest call, argument, outcome and
                            \* the call before it
  tx,                       \* a publish transaction built and not yet applied
  ownPreconditions,         \* history: the preconditions in the params of
                            \* the Membership call that made this contract
  wrapped                   \* latest call of a method decorated with
                            \* CatchAndPrettifyStacktrace

vars ==
  <<participantPreconditions, committedMembers, accumulatedMembers, log,
    admitted, deployedRoot, publishedAt, last, tx, ownPreconditions,
    wrapped>>

\* the actions appended after the position an actions hash stands for
pendingSince(actionsHash) == SubSeq(log, Len(actionsHash) + 1, Len(log))

\* whether `member` is one of `actions`
memberIn(member, actions) ==
  \E i \in 1..Len(actions) : memberEquals(actions[i], member)

call(op, member, ret, threw, prev) ==
  [op |-> op, member |-> member, ret |-> ret, threw |-> threw, prev |-> prev]

\* a publish transaction: the state values it read (its preconditions) and
\* the result of its reduce call
transaction(open, committed, accumulated, result) ==
  [open |-> open, committed |-> committed, accumulated |-> accumulated,
   result |-> result]

\* no publish transaction is in flight
NoTransaction ==
  transaction(FALSE, EmptyTreeRoot, initialActionsHash,
              [state |-> EmptyTreeRoot, actionsHash |-> initialActionsHash])

\* The state once Membership(params) has returned the contract observed
\* (line 33 has stored its preconditions in the module variable) and the
\* contract is deployed with no action dispatched.
Init ==
  /\ wrapped = NotCalled
  /\ tx = NoTransaction
  /\ participantPreconditions \in PreconditionChoices
  /\ ownPreconditions = participantPreconditions
  /\ committedMembers \in DeployRoots
  /\ deployedRoot = committedMembers
  /\ accumulatedMembers = initialActionsHash
  /\ log = <<>>
  /\ admitted = <<>>
  /\ publishedAt = 0
  /\ last = call("deploy", EmptyMember, FALSE, FALSE, "none")

----------------------------------------------------------------------------
(* Membership(params), called for another contract address after the      *)
(* contract observed was made                                              *)

Membership(params) ==
  /\ participantPreconditions' = params.participantPreconditions
  /\ last' = call("Membership", EmptyMember, FALSE, FALSE, last.op)
  /\ UNCHANGED <<committedMembers, accumulatedMembers, log, admitted,
                 deployedRoot, ownPreconditions, wrapped, publishedAt, tx>>

----------------------------------------------------------------------------
(* Membership_.addEntry(member)                                            *)

\* the Bool built by member.balance.gte(minMina).and(member.balance.lte(maxMina))
balanceInRange(member) ==
  /\ member.balance >= participantPreconditions.minMina
  /\ member.balance <= participantPreconditions.maxMina

\* Whether the statement of lines 81-83 throws. It ends in `.assertTrue`
\* without call parentheses: the method is looked up and dropped, so the
\* Bool is built and nothing is asserted.
eligibilityThrows(member) ==
  LET inRange == balanceInRange(member) IN FALSE

\* the callback of the existence scan, (state, _action) => ...
existsStep(member) ==
  [state \in BOOLEAN, action \in ActionValues |->
     memberEquals(action, member) \/ state]

\* variant: the scan runs over every action dispatched so far
addEntryReduceWholeLog(member, accumulated) ==
  reduce(log, existsStep(member),
         [state |-> FALSE, actionsHash |-> initialActionsHash])

\* the reduce call of lines 89-97: the list of actions passed is []
addEntryReduce(member, accumulated) ==
  reduce(<<>>, existsStep(member),
         [state |-> FALSE, actionsHash |-> accumulated])

\* variant: a duplicate is removed by blanking the entry dispatched earlier
addEntryRewritesLog(member) ==
  /\ Len(log) < MaxLog
  /\ log' = Append([i \in 1..Len(log) |->
                      IF memberEquals(log[i], member) THEN EmptyMember
                                                      ELSE log[i]],
                   member)
  /\ admitted' = Append(admitted, member)
  /\ last' = call("addEntry", member, memberIn(member, log), FALSE, last.op)
  /\ UNCHANGED <<participantPreconditions, committedMembers,
                 accumulatedMembers, deployedRoot, ownPreconditions, wrapped,
                 publishedAt, tx>>

\* variant: the dispatch also moves the stored marker past the new action
addEntryAdvancesMarker(member) ==
  /\ Len(log) < MaxLog
  /\ log' = Append(log, member)
  /\ admitted' = Append(admitted, member)
  /\ accumulatedMembers' = updateActionsHash(accumulatedMembers, member)
  /\ last' = call("addEntry", member, FALSE, FALSE, last.op)
  /\ UNCHANGED <<participantPreconditions, committedMembers, deployedRoot,
                 ownPreconditions, wrapped, publishedAt, tx>>

addEntry(member) ==
  /\ Len(log) < MaxLog
  /\ IF eligibilityThrows(member)
     THEN /\ last' = call("addEntry", member, FALSE, TRUE, last.op)
          /\ UNCHANGED <<log, admitted>>
     ELSE LET exists == addEntryReduce(member, accumulatedMembers).state
              toEmit == CircuitIf(exists, EmptyMember, member)
          IN  /\ log' = Append(log, toEmit)
              /\ admitted' = Append(admitted, member)
              /\ last' = call("addEntry", member, exists, FALSE, last.op)
  /\ UNCHANGED <<participantPreconditions, committedMembers,
                 accumulatedMembers, deployedRoot, ownPreconditions, wrapped,
                 publishedAt, tx>>

----------------------------------------------------------------------------
(* Membership_.isMember(member)                                            *)

\* variant: an entry still pending in the action log counts as a member
isMemberResultPending(member, committed) ==
  \/ calculateRoot(member.witness, PoseidonHash(toFields(member))) = committed
  \/ memberIn(member, log)

isMemberResult(member, committed) ==
  calculateRoot(member.witness, PoseidonHash(toFields(member))) = committed

isMember(member) ==
  /\ last' = call("isMember", member,
                  isMemberResult(member, committedMembers), FALSE, last.op)
  /\ UNCHANGED <<participantPreconditions, committedMembers,
                 accumulatedMembers, log, admitted, deployedRoot,
                 ownPreconditions, wrapped, publishedAt, tx>>

----------------------------------------------------------------------------
(* Membership_.publish()                                                   *)

\* variant: an empty action yields the root of the empty tree, not `state`
merkleStepResetsOnEmpty ==
  [state \in DeployRoots, action \in ActionValues |->
     LET isRealMember ==
           CircuitIf(action.publicKey = EmptyPublicKey, FALSE, TRUE)
     IN  CircuitIf(isRealMember,
                   calculateRoot(action.witness,
                                 PoseidonHash(toFields(action))),
                   EmptyTreeRoot)]

\* the callback of the Merkle fold, (state, _action) => ...
merkleStep ==
  [state \in DeployRoots, action \in ActionValues |->
     LET isRealMember ==
           CircuitIf(action.publicKey = EmptyPublicKey, FALSE, TRUE)
     IN  CircuitIf(isRealMember,
                   calculateRoot(action.witness,
                                 PoseidonHash(toFields(action))),
                   state)]

\* variant: the pending actions are folded into the root, the marker stays
publishReduceKeepsMarker(committed, accumulated) ==
  [state |->
     reduce(pendingSince(accumulated), merkleStep,
            [state |-> committed, actionsHash |-> accumulated]).state,
   actionsHash |-> accumulated]

\* variant: the fold starts from the root of the empty tree
publishReduceFromEmpty(committed, accumulated) ==
  reduce(<<>>, merkleStep,
         [state |-> EmptyTreeRoot, actionsHash |-> accumulated])

\* the reduce call of lines 142-164: the list of actions passed is []
publishReduce(committed, accumulated) ==
  reduce(<<>>, merkleStep, [state |-> committed, actionsHash |-> accumulated])

publish ==
  LET result == publishReduce(committedMembers, accumulatedMembers)
  IN  /\ committedMembers' = result.state
      /\ accumulatedMembers' = result.actionsHash
      /\ publishedAt' = Len(log)
      /\ last' = call("publish", EmptyMember, FALSE, FALSE, last.op)
      /\ UNCHANGED <<participantPreconditions, log, admitted, deployedRoot,
                     ownPreconditions, wrapped, tx>>

----------------------------------------------------------------------------
(* Membership_.publish() as a transaction: the method body runs when the   *)
(* transaction is built (publishBegin) and its state updates take effect   *)
(* when it is applied (publishEnd), provided the values it read through    *)
(* get() and pinned with assertEquals still are the stored ones. Other     *)
(* calls may run in between.                                               *)

\* variant: the marker written is the one of the log at the time of writing
publishSetsLiveMarker(result) ==
  [committedMembers |-> result.state, accumulatedMembers |-> log]

\* the state updates of lines 166-167
publishSets(result) ==
  [committedMembers |-> result.state,
   accumulatedMembers |-> result.actionsHash]

\* lines 136-164: read the checkpoint and reduce
publishBegin ==
  /\ ~tx.open
  /\ tx' = transaction(TRUE, committedMembers, accumulatedMembers,
                       publishReduce(committedMembers, accumulatedMembers))
  /\ publishedAt' = Len(log)
  /\ last' = call("publishBegin", EmptyMember, FALSE, FALSE, last.op)
  /\ UNCHANGED <<participantPreconditions, committedMembers,
                 accumulatedMembers, log, admitted, deployedRoot,
                 ownPreconditions, wrapped>>

\* the preconditions of lines 137 and 140, then the updates of lines 166-167
publishEnd ==
  /\ tx.open
  /\ tx' = NoTransaction
  /\ IF /\ accumulatedMembers = tx.accumulated
        /\ committedMembers = tx.committed
     THEN /\ committedMembers' = publishSets(tx.result).committedMembers
          /\ accumulatedMembers' = publishSets(tx.result).accumulatedMembers
          /\ last' = call("publish", EmptyMember, FALSE, FALSE, last.op)
     ELSE /\ last' = call("publish", EmptyMember, FALSE, TRUE, last.op)
          /\ UNCHANGED <<committedMembers, accumulatedMembers>>
  /\ UNCHANGED <<participantPreconditions, log, admitted, deployedRoot,
                 ownPreconditions, wrapped, publishedAt>>

----------------------------------------------------------------------------
Next ==
  \/ \E p \in PreconditionChoices :
       Membership([participantPreconditions |-> p])
  \/ \E member \in Candidates : addEntry(member)
  \/ \E member \in Candidates : isMember(member)
  \/ publish

Spec == Init /\ [][Next]_vars

\* calls of other transactions run between the two halves of a publish
NextInterleaved ==
  \/ \E p \in PreconditionChoices :
       Membership([participantPreconditions |-> p])
  \/ \E member \in Candidates : addEntry(member)
  \/ \E member \in Candidates : isMember(member)
  \/ publishBegin
  \/ publishEnd

SpecInterleaved == Init /\ [][NextInterleaved]_vars

----------------------------------------------------------------------------
(* The Merkle fold of publish run by the fold engine over an action log,   *)
(* in stages: each stage folds some of the actions pending since the       *)
(* marker of the (root, marker) checkpoint, with the callback of publish,  *)
(* and stores the checkpoint it returns.                                   *)

\* the action logs of at most MaxLog actions
BoundedLogs == UNION {[1..n -> ActionValues] : n \in 0..MaxLog}

FoldInit ==
  /\ wrapped = NotCalled
  /\ log \in BoundedLogs
  /\ admitted = <<>>
  /\ committedMembers \in DeployRoots
  /\ deployedRoot = committedMembers
  /\ accumulatedMembers = initialActionsHash
  /\ participantPreconditions = DefaultPreconditions
  /\ ownPreconditions = participantPreconditions
  /\ publishedAt = 0
  /\ last = call("deploy", EmptyMember, FALSE, FALSE, "none")
  /\ tx = NoTransaction

\* fold the next n pending actions from the stored checkpoint
foldStage(n) ==
  LET from == Len(accumulatedMembers)
      result == reduce(SubSeq(log, from + 1, from + n), merkleStep,
                       [state |-> committedMembers,
                        actionsHash |-> accumulatedMembers])
  IN  /\ from + n <= Len(log)
      /\ committedMembers' = result.state
      /\ accumulatedMembers' = result.actionsHash
      /\ last' = call("fold", EmptyMember, FALSE, FALSE, last.op)
      /\ UNCHANGED <<participantPreconditions, log, admitted, deployedRoot,
                     ownPreconditions, wrapped, publishedAt, tx>>

FoldNext == \E n \in 1..MaxLog : foldStage(n)

FoldSpec == FoldInit /\ [][FoldNext]_vars

----------------------------------------------------------------------------
(* Calls of a method decorated with CatchAndPrettifyStacktrace             *)

wrappedCall(original, error) ==
  LET end == CatchAndPrettifyStacktrace(original, error)
  IN  /\ wrapped' = wrapperCall(TRUE, original, error, end.result, end.error)
      /\ UNCHANGED <<participantPreconditions, committedMembers,
                     accumulatedMembers, log, admitted, deployedRoot,
                     publishedAt, last, tx, ownPreconditions>>

WrapNext ==
  \/ \E original \in OriginalOutcomes, error \in ThrownValues :
       /\ original.ref = ErrorRef
       /\ wrappedCall(original, error)
  \/ \E original \in OriginalOutcomes :
       /\ original.ref = NoRef
       /\ wrappedCall(original, NoThrownValue)

\* the contract takes no part: its state is held at one deployed state
WrapInit ==
  /\ wrapped = NotCalled
  /\ tx = NoTransaction
  /\ participantPreconditions = DefaultPreconditions
  /\ ownPreconditions = participantPreconditions
  /\ committedMembers = EmptyTreeRoot
  /\ deployedRoot = committedMembers
  /\ accumulatedMembers = initialActionsHash
  /\ log = <<>>
  /\ admitted = <<>>
  /\ publishedAt = 0
  /\ last = call("deploy", EmptyMember, FALSE, FALSE, "none")

WrapSpec == WrapInit /\ [][WrapNext]_vars

----------------------------------------------------------------------------
(* Reference values of the properties                                      *)

\* the Merkle fold of `actions` from `root`
merkleFold(actions, root) ==
  reduce(actions, merkleStep,
         [state |-> root, actionsHash |-> initialActionsHash]).state

\* the member of the end-to-end scenario: balance 5, inside [0, 10]
MemberA == mkMember(1, 5, TRUE)

----------------------------------------------------------------------------
(* Properties                                                              *)

\* C1: addEntry fails with an eligibility error exactly when the balance of
\* the member lies outside [minMina, maxMina], bounds inclusive.
C1_EligibilityEnforced ==
  last.op = "addEntry" => (last.threw <=> ~balanceInRange(last.member))

\* C2: an addEntry call whose member is outside [minMina, maxMina] leaves
\* the action log, the accumulated marker and the committed root as they were.
C2_RejectedAppendsNothing ==
  [][(last'.op = "addEntry" /\ ~balanceInRange(last'.member))
       => UNCHANGED <<log, accumulatedMembers, committedMembers>>]_vars

\* C3: addEntry returns true if and only if its member is among the actions
\* pending since the accumulated marker at the time of the call.
C3_ExistsIffPending ==
  [][(last'.op = "addEntry" /\ ~last'.threw)
       => (last'.ret
             <=> memberIn(last'.member, pendingSince(accumulatedMembers)))]_vars

\* C4: every addEntry call that passes the eligibility check appends exactly
\* one action: the empty member when its member is already pending, the
\* member itself otherwise.
C4_AppendsEmptyOrMember ==
  [][(last'.op = "addEntry" /\ ~last'.threw)
       => log' = Append(log,
                   IF memberIn(last'.member, pendingSince(accumulatedMembers))
                   THEN EmptyMember ELSE last'.member)]_vars

\* C5: among the admissions made since the latest publish, a member admitted
\* k >= 1 times has left exactly one real entry and k-1 empty entries in the
\* log, at the places of those admissions.
C5_OneRealEntryPerMember ==
  \A m \in Candidates :
    LET at == {i \in (publishedAt + 1)..Len(admitted) : admitted[i] = m}
    IN  at # {} =>
          /\ Cardinality({i \in at : log[i] = m}) = 1
          /\ Cardinality({i \in at : log[i] = EmptyMember})
               = Cardinality(at) - 1

\* C6: publish sets the committed root to the Merkle fold, in append order
\* and from the stored root, of all actions pending since the stored marker,
\* and sets the marker to the one of the whole log, so nothing is pending.
C6_PublishFoldsPending ==
  [][last'.op = "publish"
       => /\ committedMembers'
               = merkleFold(pendingSince(accumulatedMembers), committedMembers)
          /\ accumulatedMembers'
               = accumulatedMembers \o pendingSince(accumulatedMembers)
          /\ pendingSince(accumulatedMembers)' = <<>>]_vars

\* C7: in every state the stored marker stands for a prefix of the log and
\* the committed root is the Merkle fold, from the deployed root, of exactly
\* the actions of that prefix: root and marker never advance apart.
C7_RootMatchesMarker ==
  /\ Len(accumulatedMembers) <= Len(log)
  /\ accumulatedMembers = SubSeq(log, 1, Len(accumulatedMembers))
  /\ committedMembers = merkleFold(accumulatedMembers, deployedRoot)

C7_Witness ==
  /\ last.op = "publish"
  /\ Len(log) >= 2
  /\ \E i \in 1..Len(log) : log[i].publicKey # EmptyPublicKey

\* C8: a publish with nothing pending, and a publish that directly follows
\* a publish, leave the (root, marker) checkpoint as it was.
C8_PublishIdempotent ==
  [][(/\ last'.op = "publish"
      /\ \/ pendingSince(accumulatedMembers) = <<>>
         \/ last.op = "publish")
       => UNCHANGED <<committedMembers, accumulatedMembers>>]_vars

C8_Witness ==
  /\ last.op = "publish"
  /\ last.prev = "publish"
  /\ committedMembers # EmptyTreeRoot
  /\ Len(log) >= 1

\* C9: from an empty log, addEntry(A) returns false and the log is <<A>>;
\* addEntry(A) again returns true and the log is <<A, empty>>; publish then
\* sets the root to the Merkle root of A and moves the marker past both
\* entries; isMember(A) is then true.
C9_EndToEnd ==
  /\ (last.op = "addEntry" /\ admitted = <<MemberA>> /\ publishedAt = 0)
       => (~last.ret /\ log = <<MemberA>>)
  /\ (last.op = "addEntry" /\ admitted = <<MemberA, MemberA>>
        /\ publishedAt = 0)
       => (last.ret /\ log = <<MemberA, EmptyMember>>)
  /\ (last.op = "publish" /\ admitted = <<MemberA, MemberA>>
        /\ last.prev = "addEntry")
       => (/\ committedMembers = memberRoot(MemberA)
           /\ Len(accumulatedMembers) = 2)
  /\ (last.op = "isMember" /\ last.member = MemberA
        /\ admitted = <<MemberA, MemberA>> /\ last.prev = "publish")
       => last.ret

\* C10: isMember returns whether the root recomputed from the member and its
\* witness equals the committed root; it changes no contract state; and the
\* answer for every member stays the same across every call but publish.
C10_IsMemberPure ==
  /\ [](last.op = "isMember"
         => (last.ret
               <=> memberRoot(last.member) = committedMembers))
  /\ [][last'.op = "isMember"
          => UNCHANGED <<participantPreconditions, committedMembers,
                         accumulatedMembers, log>>]_vars
  /\ [][last'.op # "publish"
          => \A m \in Candidates :
               isMemberResult(m, committedMembers')
                 <=> isMemberResult(m, committedMembers)]_vars

C10_Witness ==
  /\ last.op = "isMember"
  /\ last.ret
  /\ \E i \in 1..Len(log) : log[i] # last.member

\* C11: when a publish completes while admissions were appended during it,
\* the log is as it was, the new marker stands for a prefix of the log that
\* ends no later than the log the publish read, and the new root is the
\* Merkle fold of exactly the actions the marker moved past, so every action
\* appended during the publish is still pending.
C11_NoActionLost ==
  [][(last'.op = "publish" /\ ~last'.threw)
       => /\ log' = log
          /\ Len(accumulatedMembers) <= Len(accumulatedMembers')
          /\ Len(accumulatedMembers') <= publishedAt
          /\ accumulatedMembers' = SubSeq(log, 1, Len(accumulatedMembers'))
          /\ committedMembers'
               = merkleFold(SubSeq(log, Len(accumulatedMembers) + 1,
                                   Len(accumulatedMembers')),
                            committedMembers)]_vars

C11_Witness ==
  /\ last.op = "publish"
  /\ ~last.threw
  /\ publishedAt >= 1
  /\ Len(log) > publishedAt

\* C12: every step keeps the log of the state before it as a prefix of the
\* log after it, and the stored marker as a prefix of the marker after it:
\* no entry is removed, reordered or changed and the marker never moves back.
C12_AppendOnly ==
  [][/\ Len(log) <= Len(log')
     /\ SubSeq(log', 1, Len(log)) = log
     /\ Len(accumulatedMembers) <= Len(accumulatedMembers')
     /\ SubSeq(accumulatedMembers', 1, Len(accumulatedMembers))
          = accumulatedMembers]_vars

C12_Witness ==
  /\ last.op = "addEntry"
  /\ publishedAt >= 1
  /\ Len(log) >= publishedAt + 2
  /\ \E i \in 1..publishedAt : memberEquals(log[i], last.member)

\* C13: addEntry and isMember leave the committed root and the stored marker
\* as they were, and a step that changes either of them is a publish.
C13_OnlyPublishWrites ==
  [][/\ last'.op \in {"addEntry", "isMember"}
          => UNCHANGED <<committedMembers, accumulatedMembers>>
     /\ (\/ committedMembers' # committedMembers
         \/ accumulatedMembers' # accumulatedMembers)
          => last'.op = "publish"]_vars

C13_Witness ==
  /\ last.op = "addEntry"
  /\ last.prev = "isMember"
  /\ ~balanceInRange(last.member)
  /\ committedMembers = deployedRoot
  /\ accumulatedMembers = initialActionsHash

\* C14: folding the actions of a log in any number of stages, each resumed
\* from the (value, marker) the stage before returned, gives the (value,
\* marker) that one fold run over the same actions gives.
C14_FoldResumable ==
  [state |-> committedMembers, actionsHash |-> accumulatedMembers]
    = reduce(SubSeq(log, 1, Len(accumulatedMembers)), merkleStep,
             [state |-> deployedRoot, actionsHash |-> initialActionsHash])

C14_Witness ==
  /\ last.op = "fold"
  /\ last.prev = "fold"
  /\ Len(accumulatedMembers) = Len(log)
  /\ \E i \in 1..Len(log) : log[i] = EmptyMember
  /\ \E i \in 2..Len(log) : log[i].publicKey # EmptyPublicKey
  /\ committedMembers # deployedRoot

\* C17: a fold of pending actions that holds a real entry leaves the root
\* recomputed from the last real entry folded and its witness, whatever the
\* root before and the entries before it; a fold of empty entries alone
\* leaves the root as it was.
C17_RootOfLastRealEntry ==
  [][last'.op = "fold"
       => LET folded == SubSeq(log, Len(accumulatedMembers) + 1,
                               Len(accumulatedMembers'))
              real == {i \in 1..Len(folded) :
                         folded[i].publicKey # EmptyPublicKey}
          IN  IF real # {}
              THEN LET e == folded[CHOOSE i \in real :
                                     \A j \in real : j <= i]
                   IN  committedMembers' = memberRoot(e)
              ELSE committedMembers' = committedMembers]_vars

C17_Witness ==
  /\ last.op = "fold"
  /\ last.prev = "deploy"
  /\ Len(accumulatedMembers) = 3
  /\ log[1].publicKey # EmptyPublicKey
  /\ log[2].publicKey # EmptyPublicKey
  /\ log[1] # log[2]
  /\ log[3] = EmptyMember
  /\ deployedRoot = memberRoot(log[1])
  /\ committedMembers = memberRoot(log[2])

\* C15: the range Bool that addEntry builds for its member is the one of
\* the preconditions given to the Membership call that made the contract,
\* whatever Membership calls for other contracts came later.
C15_OwnBoundsChecked ==
  [][last'.op = "addEntry"
       => (balanceInRange(last'.member)
             <=> /\ last'.member.balance >= ownPreconditions.minMina
                 /\ last'.member.balance <= ownPreconditions.maxMina)]_vars

\* C16: addEntry returns true only for a member pending since the stored
\* marker; for a member dispatched before the latest publish and not since,
\* it returns false and appends the member itself once more.
C16_CommittedNotFound ==
  [][(last'.op = "addEntry" /\ ~last'.threw)
       => /\ last'.ret
               => memberIn(last'.member, pendingSince(accumulatedMembers))
          /\ (/\ memberIn(last'.member, SubSeq(log, 1, publishedAt))
              /\ ~memberIn(last'.member,
                           SubSeq(log, publishedAt + 1, Len(log))))
               => (~last'.ret /\ log' = Append(log, last'.member))]_vars

C16_Witness ==
  /\ last.op = "addEntry"
  /\ ~last.ret
  /\ publishedAt >= 1
  /\ Len(log) = publishedAt + 1
  /\ memberIn(last.member, SubSeq(log, 1, publishedAt))
  /\ log[Len(log)] = last.member

\* C18: when the original method throws, the wrapper throws the same
\* object, and when its promise rejects, the wrapper's promise rejects with
\* the same object, in both cases changed in nothing but its stack; when
\* the original returns a value or its promise resolves with one, the
\* wrapper returns or resolves with that value.
C18_ErrorNeverSwallowed ==
  wrapped.called =>
    /\ wrapped.result.kind = wrapped.original.kind
    /\ wrapped.result.value = wrapped.original.value
    /\ wrapped.result.ref = wrapped.original.ref
    /\ wrapped.errorAfter.isError = wrapped.errorBefore.isError
    /\ wrapped.errorAfter.message = wrapped.errorBefore.message
    /\ wrapped.original.kind \in {"return", "resolve"}
         => wrapped.errorAfter = wrapped.errorBefore

C18_Witness ==
  /\ wrapped.called
  /\ wrapped.original.kind = "reject"
  /\ wrapped.result.kind = "reject"
  /\ wrapped.errorBefore.isError
  /\ Len(wrapped.errorBefore.stack) = 2
  /\ Len(wrapped.errorAfter.stack) = 1
  /\ wrapped.errorAfter.stack[1].path = <<"snarkyjs", "src", "a.ts">>

====
